---- MODULE Spec2Model ----
(***************************************************************************)
(* Model of the opencode-mailbox plugin (src/index.ts).                    *)
(*                                                                         *)
(* The plugin runs on one JavaScript thread.  A timer callback, a tool     *)
(* call and the completion of an I/O request are event-loop tasks; a task  *)
(* runs, together with the promise continuations it queues, until it       *)
(* awaits an I/O request or ends.  bun:sqlite is synchronous, so the only  *)
(* awaits that hand the thread back to the event loop are                  *)
(*   client.path.get()        (src/index.ts:72, while dbFile is null),     *)
(*   client.session.prompt()  (src/index.ts:273, 294),                     *)
(*   client.session.resume()  (src/index.ts:287).                          *)
(* Every other await in the file (await getDatabase, await addMessage,     *)
(* await markMessageAsRead, ...) resumes from the microtask queue before   *)
(* any other task starts.  The variable running holds the call chain that  *)
(* owns the thread between two such awaits (Idle when the thread is free,  *)
(* and only then does a new task start); suspended holds the chains that   *)
(* wait for an I/O answer.                                                 *)
(***************************************************************************)
EXTENDS Integers, Sequences, FiniteSets, Bags, TLC

\* ---------------------------------------------------------------- bounds
MaxMsgs == 2        \* rows ever inserted into the messages table
MaxChains == 2      \* async call chains (poll ticks, send_mail calls) in flight
MaxRef == 2         \* cap on a watch entry's refCount
MaxTimers == 2      \* interval timers alive at once
MaxConns == 3       \* store connections open at once

\* --------------------------------------------------------------- inputs
RawNames == {"samus", "SAMUS", "zelda"}   \* names the callers may pass
MailNames == {"samus", "SAMUS"}            \* the names Spec sends to and watches
RawSenders == {"Link"}
Sessions == {"A", "B"}
Instructions == {"summarize", "ignore"}
Timestamps == {1, 2}                 \* readings of Date.now()
ErrorMessages == {"database is locked", "constraint failed"}

None == "none"
NoDb == 0
NoWatch == [interval |-> 0, instructions |-> None, refCount |-> 0]
NoTimer == [recipient |-> None, sessionId |-> None, instructions |-> None]

\* mutant: names are used as they were typed
toLowerCase_asTyped(s) == s

\* String.prototype.toLowerCase on the names the model draws from
toLowerCase(s) ==
  CASE s = "SAMUS" -> "samus"
    [] s = "Samus" -> "samus"
    [] s = "Link" -> "link"
    [] OTHER -> s

Recipients == {toLowerCase(n) : n \in RawNames}
TimerIds == 1..MaxTimers
ConnIds == 1..MaxConns

VARIABLES
  dbFile,            \* let dbFile: cached path of mailbox.db (FALSE = null)
  db,                \* let db: the connection handle (NoDb = null)
  openConns,         \* connections created by new Database() and not closed
  messages,          \* rows of the messages table, in rowid order
  activeWatches,     \* recipient -> {interval, instructions, refCount}
  watchesBySession,  \* sessionId -> set of recipients ({} = no key)
  timers,            \* setInterval timers: id -> closure (NoTimer = cleared)
  running,           \* the call chain that holds the JavaScript thread, or Idle
  suspended,         \* bag of the call chains awaiting an I/O answer
  injectCount        \* per row: passive inject calls that carried it (2 = several)

vars == <<dbFile, db, openConns, messages, activeWatches, watchesBySession,
          timers, running, suspended, injectCount>>

\* A call chain: a poll tick (kind "tick": recipient, sessionId, instructions
\* of the timer's closure, the fetched unreadMessages as row ids, the index k
\* of the marking loop) or a send_mail call (kind "send": to, from, timestamp;
\* attempts, resets, stored and errs record what the call has done so far).
\* A local that the code no longer reads is put back to its default.
\* stale, withdrawn and quiet are history: the tick's watch entry was
\* destroyed while it waited; the session of the tick's closure unsubscribed
\* while it waited; the send_mail call began while its recipient had no
\* watch entry and none has been created since.
Idle == [kind |-> "idle", pc |-> "idle", op |-> None, recipient |-> None,
         sessionId |-> None, instructions |-> None, unread |-> <<>>, k |-> 0,
         sender |-> None, timestamp |-> 0, attempts |-> 0, resets |-> 0,
         stored |-> 0, errs |-> <<>>, stale |-> FALSE, withdrawn |-> FALSE,
         quiet |-> FALSE]

Min(S) == CHOOSE x \in S : \A y \in S : x <= y

RECURSIVE SetToSeqs(_)
\* every ordering of a finite set, as sequences
SetToSeqs(S) ==
  IF S = {} THEN {<<>>}
  ELSE UNION {{<<x>> \o s : s \in SetToSeqs(S \ {x})} : x \in S}

\* ------------------------------------------------------ pure store code
isDatabaseFileError(e) ==
  e \in {"database disk image is malformed", "no such table",
         "unable to open database file", "database is locked",
         "disk i/o error", "no more rows available", "unable to close",
         "bad parameter or other api misuse"}

\* INSERT INTO messages (recipient, sender, message, timestamp, read) VALUES (?,?,?,?,0)
\* (quiet is history, not a column: see Quiet below)
addMessage(rows, recipient, sender, timestamp) ==
  Append(rows, [recipient |-> toLowerCase(recipient),
                sender |-> toLowerCase(sender),
                timestamp |-> timestamp, read |-> FALSE, quiet |-> FALSE])

\* mutant: the query has LIMIT 1
getUnreadMessages_limitOne(rows, recipient) ==
  LET ids == {i \in DOMAIN rows :
                /\ rows[i].recipient = toLowerCase(recipient)
                /\ ~rows[i].read}
  IN IF ids = {} THEN {<<>>}
     ELSE {<<i>> : i \in {x \in ids : \A y \in ids : rows[x].timestamp <= rows[y].timestamp}}

\* mutant: the query has no ORDER BY and returns the rows in rowid order
getUnreadMessages_rowidOrder(rows, recipient) ==
  LET ids == {i \in DOMAIN rows :
                /\ rows[i].recipient = toLowerCase(recipient)
                /\ ~rows[i].read}
  IN {s \in SetToSeqs(ids) : \A i, j \in DOMAIN s : i < j => s[i] < s[j]}

\* SELECT ... WHERE recipient = ? AND read = 0 ORDER BY timestamp ASC:
\* the set of row-id sequences the query may return (rows with equal
\* timestamps come in an order SQL leaves open)
getUnreadMessages(rows, recipient) ==
  LET ids == {i \in DOMAIN rows :
                /\ rows[i].recipient = toLowerCase(recipient)
                /\ ~rows[i].read}
  IN {s \in SetToSeqs(ids) :
        \A i, j \in DOMAIN s : i < j => rows[s[i]].timestamp <= rows[s[j]].timestamp}

\* mutant: the UPDATE has no timestamp in its WHERE clause
markMessageAsRead_wholeMailbox(rows, recipient, timestamp) ==
  [i \in DOMAIN rows |->
     IF rows[i].recipient = toLowerCase(recipient)
     THEN [rows[i] EXCEPT !.read = TRUE]
     ELSE rows[i]]

\* mutant: the UPDATE matches no row
markMessageAsRead_matchesNothing(rows, recipient, timestamp) == rows

\* UPDATE messages SET read = 1 WHERE recipient = ? AND timestamp = ?
markMessageAsRead(rows, recipient, timestamp) ==
  [i \in DOMAIN rows |->
     IF rows[i].recipient = toLowerCase(recipient) /\ rows[i].timestamp = timestamp
     THEN [rows[i] EXCEPT !.read = TRUE]
     ELSE rows[i]]

\* ------------------------------------------------------- watch registry
\* The registry as one value: the two maps and the timers they own.
Registry == [watches |-> activeWatches, sessions |-> watchesBySession,
             timers |-> timers]

\* mutant: a subscribe to an existing entry stores its own instructions
startMailWatch_lastWriterWins(reg, recipient, sessionId, instructions) ==
  IF reg.watches[recipient] # NoWatch
  THEN [reg EXCEPT !.watches[recipient].refCount = @ + 1,
                   !.watches[recipient].instructions = instructions,
                   !.timers[reg.watches[recipient].interval].instructions = instructions,
                   !.sessions[sessionId] = @ \cup {recipient}]
  ELSE LET interval == Min({t \in TimerIds : reg.timers[t] = NoTimer})
       IN [reg EXCEPT
             !.timers[interval] = [recipient |-> recipient, sessionId |-> sessionId,
                                   instructions |-> instructions],
             !.watches[recipient] = [interval |-> interval,
                                     instructions |-> instructions,
                                     refCount |-> 1],
             !.sessions[sessionId] = @ \cup {recipient}]

\* startMailWatch: what it does to the registry
startMailWatch(reg, recipient, sessionId, instructions) ==
  IF reg.watches[recipient] # NoWatch
  THEN [reg EXCEPT !.watches[recipient].refCount = @ + 1,
                   !.sessions[sessionId] = @ \cup {recipient}]
  ELSE LET interval == Min({t \in TimerIds : reg.timers[t] = NoTimer})
       IN [reg EXCEPT
             !.timers[interval] = [recipient |-> recipient, sessionId |-> sessionId,
                                   instructions |-> instructions],
             !.watches[recipient] = [interval |-> interval,
                                     instructions |-> instructions,
                                     refCount |-> 1],
             !.sessions[sessionId] = @ \cup {recipient}]

\* mutant: the entry is deleted and the interval is left running
stopMailWatch_keepsTimer(reg, recipient) ==
  [reg EXCEPT !.watches[recipient] = NoWatch]

\* stopMailWatch: clearInterval and delete the entry
stopMailWatch(reg, recipient) ==
  LET watch == reg.watches[recipient]
  IN IF watch # NoWatch
     THEN [reg EXCEPT !.timers[watch.interval] = NoTimer,
                      !.watches[recipient] = NoWatch]
     ELSE reg

\* mutant: the count is lowered and the entry is never stopped
releaseWatch_neverStops(reg, recipient) ==
  IF reg.watches[recipient] # NoWatch
  THEN [reg EXCEPT !.watches[recipient].refCount = @ - 1]
  ELSE reg

\* the body of the loop over a session's recipients (stop_watching_mail and
\* the session.end hook have the same one)
releaseWatch(reg, recipient) ==
  LET watch == reg.watches[recipient]
  IN IF watch # NoWatch
     THEN LET dec == [reg EXCEPT !.watches[recipient].refCount = @ - 1]
          IN IF dec.watches[recipient].refCount <= 0
             THEN stopMailWatch(dec, recipient)
             ELSE dec
     ELSE reg

RECURSIVE releaseAll(_, _)
\* for (const recipient of sessionWatches) { ... }
releaseAll(reg, recipients) ==
  IF recipients = {} THEN reg
  ELSE LET r == CHOOSE x \in recipients : TRUE
       IN releaseAll(releaseWatch(reg, r), recipients \ {r})

\* stop_watching_mail.execute: what it does to the registry
stopWatchingMail(reg, sessionId) ==
  LET sessionWatches == reg.sessions[sessionId]
  IN IF sessionWatches # {}
     THEN [releaseAll(reg, sessionWatches) EXCEPT !.sessions[sessionId] = {}]
     ELSE reg

\* hooks["session.end"]: what it does to the registry
sessionEnd(reg, sessionId) ==
  LET sessionWatches == reg.sessions[sessionId]
  IN IF sessionWatches = {}
     THEN reg
     ELSE [releaseAll(reg, sessionWatches) EXCEPT !.sessions[sessionId] = {}]

\* check_mailbox_watch_status.execute: what the returned text reports
checkMailboxWatchStatus(name) ==
  LET n == toLowerCase(name)
      watch == activeWatches[n]
  IN IF watch = NoWatch
     THEN [watched |-> FALSE, entry |-> None, refCount |-> 0,
           sessionCount |-> 0, instructions |-> None]
     ELSE [watched |-> TRUE, entry |-> n, refCount |-> watch.refCount,
           sessionCount |-> Cardinality({s \in Sessions : n \in watchesBySession[s]}),
           instructions |-> watch.instructions]

SetRegistry(reg) ==
  /\ activeWatches' = reg.watches
  /\ watchesBySession' = reg.sessions
  /\ timers' = reg.timers

\* ------------------------------------------------------------- history
\* A row is quiet when the send_mail call that stored it began while its
\* recipient had no watch entry and no entry has been created for the
\* recipient since.
Quiet(rows, q) ==
  [i \in DOMAIN rows |->
     IF i = Len(rows) THEN [rows[i] EXCEPT !.quiet = q] ELSE rows[i]]

Unquiet(rows, watches) ==
  [i \in DOMAIN rows |->
     IF watches[rows[i].recipient] # NoWatch
     THEN [rows[i] EXCEPT !.quiet = FALSE]
     ELSE rows[i]]

UnquietSends(chainBag, watches) ==
  BagOfAll(LAMBDA ch : IF ch.kind = "send" /\ watches[ch.recipient] # NoWatch
                       THEN [ch EXCEPT !.quiet = FALSE]
                       ELSE ch,
           chainBag)

\* The ticks that wait for an answer while their recipient's entry is
\* destroyed are stale from then on.
Stale(chainBag, watches) ==
  BagOfAll(LAMBDA ch : IF /\ ch.kind = "tick"
                          /\ ch.pc = "pathget"
                          /\ activeWatches[ch.recipient] # NoWatch
                          /\ watches[ch.recipient] = NoWatch
                       THEN [ch EXCEPT !.stale = TRUE]
                       ELSE ch,
           chainBag)

\* The ticks that wait for an answer while the session they deliver to
\* gives up its subscriptions started before that session withdrew.
Withdrawn(chainBag, sessionId) ==
  BagOfAll(LAMBDA ch : IF /\ ch.kind = "tick"
                          /\ ch.pc = "pathget"
                          /\ ch.sessionId = sessionId
                          /\ ch.recipient \in watchesBySession[sessionId]
                       THEN [ch EXCEPT !.withdrawn = TRUE]
                       ELSE ch,
           chainBag)

Init ==
  /\ dbFile = FALSE
  /\ db = NoDb
  /\ openConns = {}
  /\ messages = <<>>
  /\ activeWatches = [r \in Recipients |-> NoWatch]
  /\ watchesBySession = [s \in Sessions |-> {}]
  /\ timers = [t \in TimerIds |-> NoTimer]
  /\ running = Idle
  /\ suspended = EmptyBag
  /\ injectCount = <<>>

\* ------------------------------------------------- registry operations
watch_unread_mail(sessionId, name, instructions) ==
  /\ running = Idle
  /\ activeWatches[toLowerCase(name)].refCount < MaxRef
  /\ \E t \in TimerIds : timers[t] = NoTimer
  /\ SetRegistry(startMailWatch(Registry, toLowerCase(name), sessionId, instructions))
  /\ messages' = Unquiet(messages, activeWatches')
  /\ suspended' = UnquietSends(suspended, activeWatches')
  /\ UNCHANGED <<dbFile, db, openConns, running, injectCount>>

stop_watching_mail(sessionId) ==
  /\ running = Idle
  /\ SetRegistry(stopWatchingMail(Registry, sessionId))
  /\ suspended' = Withdrawn(Stale(suspended, activeWatches'), sessionId)
  /\ UNCHANGED <<dbFile, db, openConns, messages, running, injectCount>>

session_end(sessionId) ==
  /\ running = Idle
  /\ SetRegistry(sessionEnd(Registry, sessionId))
  /\ suspended' = Withdrawn(Stale(suspended, activeWatches'), sessionId)
  /\ UNCHANGED <<dbFile, db, openConns, messages, running, injectCount>>

\* ------------------------------------------------------ store handle
\* mutant: the reset also empties the watch map
resetDatabaseConnection_dropsWatches ==
  /\ db' = NoDb
  /\ openConns' = IF db # NoDb THEN openConns \ {db} ELSE openConns
  /\ activeWatches' = [r \in Recipients |-> NoWatch]
  /\ UNCHANGED <<dbFile, messages, watchesBySession, timers>>

\* resetDatabaseConnection: closes and forgets the handle; nothing else of
\* the module's state is touched
resetDatabaseConnection ==
  /\ db' = NoDb
  /\ openConns' = IF db # NoDb THEN openConns \ {db} ELSE openConns
  /\ UNCHANGED <<dbFile, messages, activeWatches, watchesBySession, timers>>

\* getDatabase / getDbFile up to their first await: where the caller goes
\* next, given the handle d and the cached path f
getDatabase(d, f) ==
  IF d # NoDb THEN "stmt"
  ELSE IF f THEN "open"
  ELSE "pathget"

InFlight == BagCardinality(suspended) + (IF running = Idle THEN 0 ELSE 1)

\* a chain that was started or has moved on: it keeps the thread, or waits
\* for client.path.get()
Continue(ch) ==
  IF ch.pc = "pathget"
  THEN /\ running' = Idle
       /\ suspended' = suspended (+) SetToBag({ch})
  ELSE /\ running' = ch
       /\ UNCHANGED suspended

\* a suspended chain gets its answer and holds the thread again
Resumes(ch, pc) ==
  /\ running = Idle
  /\ BagIn(ch, suspended)
  /\ ch.pc = pc

\* ------------------------------------------------------------ failures
\* mutant: a database file error also ends the watch of the tick's recipient
TickCatch_stopsWatch(ch, e) ==
  /\ IF isDatabaseFileError(e)
     THEN /\ db' = NoDb
          /\ openConns' = IF db # NoDb THEN openConns \ {db} ELSE openConns
          /\ SetRegistry(stopMailWatch(Registry, ch.recipient))
          /\ UNCHANGED <<dbFile, messages>>
     ELSE UNCHANGED <<dbFile, db, openConns, messages, activeWatches,
                      watchesBySession, timers>>
  /\ running' = Idle
  /\ UNCHANGED injectCount

\* catch block of the poll tick (src/index.ts:212-223): the tick ends
TickCatch(ch, e) ==
  /\ IF isDatabaseFileError(e)
     THEN resetDatabaseConnection
     ELSE UNCHANGED <<dbFile, db, openConns, messages, activeWatches,
                      watchesBySession, timers>>
  /\ running' = Idle
  /\ UNCHANGED injectCount

\* mutant: the catch block retries after any error, classified or not
SendCatch_retriesAnyError(ch, e) ==
  IF ch.attempts = 1
  THEN /\ resetDatabaseConnection
       /\ running' = [ch EXCEPT !.attempts = @ + 1, !.resets = @ + 1,
                                !.errs = Append(@, e),
                                !.pc = getDatabase(NoDb, dbFile)]
       /\ UNCHANGED injectCount
  ELSE /\ running' = [ch EXCEPT !.pc = "thrown", !.errs = Append(@, e)]
       /\ UNCHANGED <<dbFile, db, openConns, messages, activeWatches,
                      watchesBySession, timers, injectCount>>

\* catch block of send_mail (src/index.ts:354-366); an error of the retry
\* (src/index.ts:362) is outside the try and reaches the caller
SendCatch(ch, e) ==
  IF ch.attempts = 1 /\ isDatabaseFileError(e)
  THEN /\ resetDatabaseConnection
       /\ running' = [ch EXCEPT !.attempts = @ + 1, !.resets = @ + 1,
                                !.errs = Append(@, e),
                                !.pc = getDatabase(NoDb, dbFile)]
       /\ UNCHANGED injectCount
  ELSE /\ running' = [ch EXCEPT !.pc = "thrown", !.errs = Append(@, e)]
       /\ UNCHANGED <<dbFile, db, openConns, messages, activeWatches,
                      watchesBySession, timers, injectCount>>

\* an exception e is thrown inside chain ch, which holds the thread
Throw(ch, e) ==
  IF ch.kind = "tick" THEN TickCatch(ch, e) ELSE SendCatch(ch, e)

\* ------------------------------------------------------------ send_mail
send_mail(to, from, timestamp) ==
  /\ running = Idle
  /\ InFlight < MaxChains
  /\ Len(messages) + BagCardinality(suspended) < MaxMsgs
  /\ Continue([Idle EXCEPT !.kind = "send", !.op = "insert",
                           !.pc = getDatabase(db, dbFile),
                           !.recipient = toLowerCase(to),
                           !.sender = toLowerCase(from),
                           !.timestamp = timestamp, !.attempts = 1,
                           !.quiet = (activeWatches[toLowerCase(to)] = NoWatch)])
  /\ UNCHANGED <<dbFile, db, openConns, messages, activeWatches, watchesBySession,
                 timers, injectCount>>

\* send_mail's promise settles: the caller gets the confirmation text
\* (src/index.ts:368) or the error (src/index.ts:362, 364)
Settle ==
  /\ running.pc \in {"returned", "thrown"}
  /\ running' = Idle
  /\ UNCHANGED <<dbFile, db, openConns, messages, activeWatches, watchesBySession,
                 timers, suspended, injectCount>>

\* ------------------------------------------------------------ poll tick
\* the setInterval callback of timer t starts (src/index.ts:183-193)
TickFire(t) ==
  /\ running = Idle
  /\ timers[t] # NoTimer
  /\ InFlight < MaxChains
  /\ LET closure == timers[t]
     IN IF activeWatches[closure.recipient] = NoWatch
        THEN UNCHANGED <<running, suspended>>
        ELSE Continue([Idle EXCEPT !.kind = "tick", !.op = "fetch",
                                   !.pc = getDatabase(db, dbFile),
                                   !.recipient = closure.recipient,
                                   !.sessionId = closure.sessionId,
                                   !.instructions = closure.instructions])
  /\ UNCHANGED <<dbFile, db, openConns, messages, activeWatches, watchesBySession,
                 timers, injectCount>>

\* ------------------------------------------- getDatabase, after its await
\* client.path.get() answers (src/index.ts:72-73), or fails with an error
\* that is not one of SQLite's
PathGetDone(ch) ==
  /\ Resumes(ch, "pathget")
  /\ suspended' = suspended (-) SetToBag({ch})
  /\ \/ /\ dbFile' = TRUE
        /\ running' = [ch EXCEPT !.pc = "open"]
        /\ UNCHANGED <<db, openConns, messages, activeWatches, watchesBySession,
                       timers, injectCount>>
     \/ \E e \in {m \in ErrorMessages : ~isDatabaseFileError(m)} : Throw(ch, e)

\* db = new Database(file) and the schema statements (src/index.ts:83-108);
\* the handle is assigned without looking at db again
OpenDatabase ==
  /\ running.pc = "open"
  /\ \/ /\ ConnIds \ openConns # {}
        /\ db' = Min(ConnIds \ openConns)
        /\ openConns' = openConns \cup {db'}
        /\ running' = [running EXCEPT !.pc = "stmt"]
        /\ UNCHANGED <<dbFile, messages, activeWatches, watchesBySession, timers,
                       injectCount>>
     \/ \E e \in ErrorMessages : Throw(running, e)
  /\ UNCHANGED suspended

\* ------------------------------------------------------ store statements
\* addMessage's INSERT (src/index.ts:121-125), then send_mail returns
Insert ==
  /\ running.pc = "stmt"
  /\ running.op = "insert"
  /\ \/ /\ messages' = Quiet(addMessage(messages, running.recipient, running.sender,
                                        running.timestamp), running.quiet)
        /\ injectCount' = Append(injectCount, 0)
        /\ running' = [running EXCEPT !.pc = "returned", !.stored = @ + 1]
        /\ UNCHANGED <<dbFile, db, openConns, activeWatches, watchesBySession,
                       timers>>
     \/ \E e \in ErrorMessages : Throw(running, e)
  /\ UNCHANGED suspended

\* mutant: there is no emptiness test, the tick goes on with what it fetched
Fetch_noEmptinessTest ==
  /\ running.pc = "stmt"
  /\ running.op = "fetch"
  /\ \/ /\ \E unreadMessages \in getUnreadMessages(messages, running.recipient) :
             running' = IF Len(unreadMessages) = 0
                        THEN [running EXCEPT !.pc = "inject"]
                        ELSE [running EXCEPT !.unread = unreadMessages, !.k = 1,
                                             !.op = "mark",
                                             !.pc = getDatabase(db, dbFile)]
        /\ UNCHANGED <<dbFile, db, openConns, messages, activeWatches,
                       watchesBySession, timers, injectCount>>
     \/ \E e \in ErrorMessages : Throw(running, e)
  /\ UNCHANGED suspended

\* getUnreadMessages' SELECT (src/index.ts:133-139) and the emptiness test
Fetch ==
  /\ running.pc = "stmt"
  /\ running.op = "fetch"
  /\ \/ /\ \E unreadMessages \in getUnreadMessages(messages, running.recipient) :
             running' = IF Len(unreadMessages) = 0
                        THEN Idle
                        ELSE [running EXCEPT !.unread = unreadMessages, !.k = 1,
                                             !.op = "mark",
                                             !.pc = getDatabase(db, dbFile)]
        /\ UNCHANGED <<dbFile, db, openConns, messages, activeWatches,
                       watchesBySession, timers, injectCount>>
     \/ \E e \in ErrorMessages : Throw(running, e)
  /\ UNCHANGED suspended

\* mutant: the tick goes on to the inject call and leaves the marking out
Mark_leftOut ==
  /\ running.pc = "stmt"
  /\ running.op = "mark"
  /\ running' = [running EXCEPT !.pc = "inject"]
  /\ UNCHANGED <<dbFile, db, openConns, messages, activeWatches, watchesBySession,
                 timers, suspended, injectCount>>

\* markMessageAsRead's UPDATE for the k-th fetched message (src/index.ts:200-202)
Mark ==
  /\ running.pc = "stmt"
  /\ running.op = "mark"
  /\ \/ LET message == messages[running.unread[running.k]]
        IN /\ messages' = markMessageAsRead(messages, running.recipient,
                                            message.timestamp)
           /\ running' = IF running.k < Len(running.unread)
                         THEN [running EXCEPT !.k = @ + 1,
                                              !.pc = getDatabase(db, dbFile)]
                         ELSE [running EXCEPT !.pc = "inject"]
           /\ UNCHANGED <<dbFile, db, openConns, activeWatches, watchesBySession,
                          timers, injectCount>>
     \/ \E e \in ErrorMessages : Throw(running, e)
  /\ UNCHANGED suspended

\* ------------------------------------------------------ injectMailMessages
Bump(n) == IF n < 2 THEN n + 1 ELSE n

\* session.prompt({noReply: true}) is called with the batch (src/index.ts:262-279)
Inject ==
  /\ running.pc = "inject"
  /\ injectCount' = [i \in DOMAIN injectCount |->
                       IF \E j \in DOMAIN running.unread : running.unread[j] = i
                       THEN Bump(injectCount[i])
                       ELSE injectCount[i]]
  /\ running' = Idle
  /\ suspended' = suspended (+)
       SetToBag({[Idle EXCEPT !.kind = "tick", !.pc = "prompt",
                              !.sessionId = running.sessionId]})
  /\ UNCHANGED <<dbFile, db, openConns, messages, activeWatches, watchesBySession,
                 timers>>

\* the passive prompt answers and the wake call is made: session.resume, or
\* session.prompt without noReply (src/index.ts:283-305); or the passive
\* prompt fails, which is logged (src/index.ts:313-315)
PromptDone(ch) ==
  /\ Resumes(ch, "prompt")
  /\ \/ suspended' = (suspended (-) SetToBag({ch})) (+)
                       SetToBag({[ch EXCEPT !.pc = "wake"]})
     \/ suspended' = suspended (-) SetToBag({ch})
  /\ UNCHANGED <<dbFile, db, openConns, messages, activeWatches, watchesBySession,
                 timers, running, injectCount>>

\* mutant: when the wake call is over the poll tasks are cleared
WakeDone_clearsTimers(ch) ==
  /\ Resumes(ch, "wake")
  /\ suspended' = suspended (-) SetToBag({ch})
  /\ timers' = [t \in TimerIds |-> NoTimer]
  /\ UNCHANGED <<dbFile, db, openConns, messages, activeWatches, watchesBySession,
                 running, injectCount>>

\* the wake call answers or fails; a failure is logged (src/index.ts:306-312)
WakeDone(ch) ==
  /\ Resumes(ch, "wake")
  /\ suspended' = suspended (-) SetToBag({ch})
  /\ UNCHANGED <<dbFile, db, openConns, messages, activeWatches, watchesBySession,
                 timers, running, injectCount>>

\* ---------------------------------------------------------------- system
\* The text a session passes when its subscribe creates the entry; a
\* subscribe to an existing entry passes any text.  (Which text the creator
\* passes changes nothing but the text stored.)
OwnText(s) == IF s = "A" THEN "summarize" ELSE "ignore"

Next ==
  \/ \E s \in Sessions, n \in MailNames, i \in Instructions :
       /\ activeWatches[toLowerCase(n)] # NoWatch \/ i = OwnText(s)
       /\ watch_unread_mail(s, n, i)
  \/ \E s \in Sessions : stop_watching_mail(s)
  \/ \E s \in Sessions : session_end(s)
  \/ \E to \in MailNames, from \in RawSenders, ts \in Timestamps : send_mail(to, from, ts)
  \/ Settle
  \/ \E t \in TimerIds : TickFire(t)
  \/ \E ch \in DOMAIN suspended : PathGetDone(ch)
  \/ OpenDatabase
  \/ Insert
  \/ Fetch
  \/ Mark
  \/ Inject
  \/ \E ch \in DOMAIN suspended : PromptDone(ch)
  \/ \E ch \in DOMAIN suspended : WakeDone(ch)

\* The whole plugin, with all mail and all watches on one recipient.
Spec == Init /\ [][Next]_vars

\* The watch registry alone, over every name: its three operations touch
\* nothing but the registry and read nothing else.
NextRegistry ==
  \/ \E s \in Sessions, n \in RawNames, i \in Instructions : watch_unread_mail(s, n, i)
  \/ \E s \in Sessions : stop_watching_mail(s)
  \/ \E s \in Sessions : session_end(s)

SpecRegistry == Init /\ [][NextRegistry]_vars

\* The plugin while every subscription is kept and neither the store nor
\* client.path.get() fails: the steps of Next without stop_watching_mail and
\* session.end, each store step taken with its successful outcome.  The
\* timers keep firing, the thread keeps running the chain it holds and every
\* awaited answer arrives.
PathGetAnswers(ch) == PathGetDone(ch) /\ dbFile'
OpenDatabaseOk == OpenDatabase /\ db' # NoDb
InsertOk == Insert /\ Len(messages') > Len(messages)
FetchOk ==
  /\ Fetch
  /\ db' = db
  /\ running' = Idle => getUnreadMessages(messages, running.recipient) = {<<>>}
MarkOk == Mark /\ running' # Idle

NextLive ==
  \/ \E s \in Sessions, n \in MailNames, i \in Instructions : watch_unread_mail(s, n, i)
  \/ \E to \in MailNames, from \in RawSenders, ts \in Timestamps : send_mail(to, from, ts)
  \/ Settle
  \/ \E t \in TimerIds : TickFire(t)
  \/ \E ch \in DOMAIN suspended : PathGetAnswers(ch)
  \/ OpenDatabaseOk
  \/ InsertOk
  \/ FetchOk
  \/ MarkOk
  \/ Inject
  \/ \E ch \in DOMAIN suspended : PromptDone(ch)
  \/ \E ch \in DOMAIN suspended : WakeDone(ch)

SpecLive ==
  /\ Init
  /\ [][NextLive]_vars
  /\ WF_vars(\E t \in TimerIds : TickFire(t))
  /\ WF_vars(\E ch \in DOMAIN suspended : PathGetAnswers(ch))
  /\ WF_vars(\E ch \in DOMAIN suspended : PromptDone(ch))
  /\ WF_vars(\E ch \in DOMAIN suspended : WakeDone(ch))
  /\ WF_vars(OpenDatabaseOk)
  /\ WF_vars(InsertOk)
  /\ WF_vars(FetchOk)
  /\ WF_vars(MarkOk)
  /\ WF_vars(Inject)
  /\ WF_vars(Settle)

\* ================================================================ claims

Subscribers(r) == {s \in Sessions : r \in watchesBySession[s]}

\* C1: no stored message is carried by more than one passive inject call,
\* whatever the interleaving of sends, ticks, subscribes, unsubscribes and
\* store resets.
C1_AtMostOnce ==
  \A i \in DOMAIN injectCount : injectCount[i] <= 1

\* C1 witness: a message has been injected, that tick's prompt is still
\* awaited, and a later tick is about to fetch.
C1_Witness ==
  /\ \E i \in DOMAIN injectCount : injectCount[i] = 1
  /\ running.kind = "tick" /\ running.op = "fetch" /\ running.pc = "stmt"
  /\ \E ch \in DOMAIN suspended : ch.pc = "prompt"

\* C2: the batch a tick found is injected into every session subscribed to
\* the recipient at that tick.  (The tick holds the thread from its SELECT
\* to its inject call, so the subscribers of the state where it injects
\* are those of the moment it found the batch; the inject call and the wake
\* go to the one session of running.sessionId.)
C2_InjectsEverySubscriber ==
  running.pc = "inject" =>
    \A s \in Subscribers(running.recipient) : s = running.sessionId

\* C3: when a session that already watches r calls watch_unread_mail for r
\* again, the registry is unchanged: same refCount, no second poll task,
\* same subscription set.
C3_ResubscribeIdempotent ==
  [][\A s \in Sessions, n \in RawNames, i \in Instructions :
       (toLowerCase(n) \in watchesBySession[s] /\ watch_unread_mail(s, n, i))
         => UNCHANGED <<activeWatches, watchesBySession, timers>>]_vars

\* C4: a watch entry and its poll task exist for r exactly when some session
\* is subscribed to r.
C4_EntryIffSubscribed ==
  \A r \in Recipients :
    /\ (activeWatches[r] # NoWatch) <=> (Subscribers(r) # {})
    /\ (\E t \in TimerIds : timers[t].recipient = r) <=> (Subscribers(r) # {})

\* C5: for every watched r the refCount equals the number of sessions whose
\* set contains r, which is what check_mailbox_watch_status reports as
\* references and as unique sessions.
C5_RefCountIsSubscriberCount ==
  /\ \A r \in Recipients :
       activeWatches[r] # NoWatch =>
         activeWatches[r].refCount = Cardinality(Subscribers(r))
  /\ \A n \in RawNames :
       checkMailboxWatchStatus(n).refCount = checkMailboxWatchStatus(n).sessionCount

Ascending(ids) ==
  \A i, j \in DOMAIN ids : i < j => messages[ids[i]].timestamp <= messages[ids[j]].timestamp

RowsOf(ids) == {ids[j] : j \in DOMAIN ids}

\* C6: send_mail appends at most twice; it retries, after resetting the
\* handle, exactly when the first append failed with a database file error;
\* a call that returns has stored exactly one row, a call that throws none;
\* an unclassified first error is thrown without reset or retry.
C6_SendRecovery ==
  running.kind = "send" =>
    /\ running.attempts \in {1, 2}
    /\ running.resets = running.attempts - 1
    /\ running.attempts = 2 => isDatabaseFileError(running.errs[1])
    /\ (running.attempts = 2 /\ running.pc = "open") => db = NoDb
    /\ running.pc = "returned" =>
         running.stored = 1 /\ Len(running.errs) = running.attempts - 1
    /\ running.pc = "thrown" =>
         /\ running.stored = 0
         /\ Len(running.errs) = running.attempts
         /\ running.attempts = 1 => ~isDatabaseFileError(running.errs[1])
    /\ running.pc \notin {"returned", "thrown"} =>
         running.stored = 0 /\ Len(running.errs) = running.attempts - 1

\* C6 witness: a send_mail call returns after its retry succeeded.
C6_Witness ==
  /\ running.kind = "send" /\ running.pc = "returned"
  /\ running.attempts = 2 /\ running.resets = 1

\* C7: a step that resets the store handle leaves the watch map (entries,
\* refCounts, instructions), the poll tasks and the subscription index as
\* they were.
C7_WatchesSurviveReset ==
  [][(db # NoDb /\ db' = NoDb)
       => UNCHANGED <<activeWatches, watchesBySession, timers>>]_vars

\* C7 witness: the handle that stored a message has been reset and closed,
\* and the watch with its two references is still there.
C7_Witness ==
  /\ db = NoDb /\ dbFile /\ openConns = {} /\ running = Idle
  /\ Len(messages) >= 1
  /\ activeWatches["samus"].refCount = 2
  /\ timers[activeWatches["samus"].interval].recipient = "samus"

\* C8: the batch a tick fetches holds every unread message of the recipient,
\* each once, in ascending timestamp order, and that batch is what the one
\* passive injection of the tick carries, after all of it was marked.
C8_BatchAscending ==
  /\ (running.kind = "tick" /\ running.op = "mark" /\ running.k = 1
        /\ running.pc = "stmt") =>
       /\ RowsOf(running.unread) =
            {i \in DOMAIN messages : /\ messages[i].recipient = running.recipient
                                     /\ ~messages[i].read}
       /\ Cardinality(RowsOf(running.unread)) = Len(running.unread)
       /\ Ascending(running.unread)
  /\ running.pc = "inject" =>
       /\ Cardinality(RowsOf(running.unread)) = Len(running.unread)
       /\ Ascending(running.unread)
       /\ \A i \in RowsOf(running.unread) :
            messages[i].recipient = running.recipient
       /\ \A i \in DOMAIN messages :
            messages[i].recipient = running.recipient => messages[i].read

\* C8 witness: a tick is about to inject two messages whose timestamp order
\* is the reverse of the order they were stored in.
C8_Witness ==
  /\ running.pc = "inject"
  /\ Len(running.unread) = 2
  /\ running.unread[1] > running.unread[2]
  /\ messages[running.unread[1]].timestamp < messages[running.unread[2]].timestamp

\* every scheduled poll task belongs to the entry of its recipient
TimersOwned ==
  \A t \in TimerIds :
    timers[t] # NoTimer => activeWatches[timers[t].recipient].interval = t

\* C9 as stated: once r has no watch entry no poll task is left for r, and
\* the messages stored for r from then until the next watch_unread_mail for
\* r stay unread.
C9_UnwatchedStayUnread ==
  /\ TimersOwned
  /\ \A i \in DOMAIN messages : messages[i].quiet => ~messages[i].read

\* The extent of that: no poll task is left for a recipient without entry,
\* and a message sent while its recipient has no entry is marked read only
\* by a tick that was already waiting for client.path.get() when the entry
\* was destroyed; the next watch_unread_mail finds the row as it was.
OnlyStaleTicksMark ==
  [][/\ TimersOwned'
     /\ \A i \in DOMAIN messages :
          /\ (messages[i].quiet /\ ~messages[i].read /\ messages'[i].read)
               => (running.kind = "tick" /\ running.stale)
          /\ (messages[i].quiet /\ ~messages'[i].quiet)
               => messages'[i].read = messages[i].read]_vars

\* what stop_watching_mail or session.end of session s must have done
CleanupDone(s) ==
  LET had == watchesBySession[s]
  IN /\ watchesBySession' = [watchesBySession EXCEPT ![s] = {}]
     /\ \A r \in Recipients :
          IF r \in had
          THEN /\ activeWatches[r] # NoWatch
               /\ IF activeWatches[r].refCount = 1
                  THEN /\ activeWatches'[r] = NoWatch
                       /\ timers'[activeWatches[r].interval] = NoTimer
                  ELSE /\ activeWatches'[r] =
                            [activeWatches[r] EXCEPT !.refCount = @ - 1]
                       /\ timers'[activeWatches[r].interval] =
                            timers[activeWatches[r].interval]
          ELSE activeWatches'[r] = activeWatches[r]
     /\ had = {} => UNCHANGED <<activeWatches, watchesBySession, timers>>

\* C10: after stop_watching_mail or session.end for session S, S has no entry
\* in the subscription index, every recipient S watched has its refCount
\* lowered by exactly one (the entry and its timer being destroyed at 0), no
\* other entry is touched; for a session without subscriptions the registry
\* is unchanged.
C10_SessionCleanup ==
  [][\A s \in Sessions :
       (stop_watching_mail(s) \/ session_end(s)) => CleanupDone(s)]_vars

\* C10 witness: timer 1's entry has been destroyed by a release that took its
\* refCount to 0, while the entry of timer 2 lives on with its subscriber.
C10_Witness ==
  /\ timers[1] = NoTimer
  /\ timers[2] # NoTimer
  /\ activeWatches[timers[2].recipient].refCount = 1
  /\ \E s \in Sessions : watchesBySession[s] = {}

\* names that differ at most in case (stated without toLowerCase)
SameName(a, b) ==
  \E class \in {{"samus", "SAMUS", "Samus"}, {"zelda"}, {"link", "Link"}} :
    a \in class /\ b \in class

\* C11: names are compared without regard to case: the row send_mail has
\* stored is the row every other spelling of its recipient and sender would
\* have stored, and it is fetched under every spelling of the recipient; at
\* most one watch entry exists
\* per name whatever the spellings subscribed with; and
\* check_mailbox_watch_status reports the same for every spelling.
C11_CaseInsensitive ==
  /\ (running.kind = "send" /\ running.pc = "returned") =>
       LET row == [messages[Len(messages)] EXCEPT !.quiet = FALSE]
       IN \A to \in RawNames \cup {"Samus"}, from \in {"Link", "link"} :
            (SameName(to, row.recipient) /\ SameName(from, row.sender))
              => addMessage(<<>>, to, from, row.timestamp)[1] = row
  /\ \A n \in RawNames :
       \A unread \in getUnreadMessages(messages, n) :
         \A i \in DOMAIN messages :
           (SameName(messages[i].recipient, n) /\ ~messages[i].read)
             => \E j \in DOMAIN unread : unread[j] = i
  /\ \A r1, r2 \in DOMAIN activeWatches :
       (SameName(r1, r2) /\ activeWatches[r1] # NoWatch /\ activeWatches[r2] # NoWatch)
         => r1 = r2
  /\ \A n1, n2 \in RawNames :
       SameName(n1, n2) => checkMailboxWatchStatus(n1) = checkMailboxWatchStatus(n2)
  /\ \A n \in RawNames :
       (\E s \in Sessions : \E r \in watchesBySession[s] : SameName(r, n))
         => checkMailboxWatchStatus(n).watched

\* C11 witness: both sessions subscribed to samus, an unread message for
\* samus is in the store, and the query and the status asked for under the
\* spelling SAMUS find that message and that entry.
C11_Witness ==
  /\ \A s \in Sessions : watchesBySession[s] = {"samus"}
  /\ \E i \in DOMAIN messages :
       /\ ~messages[i].read
       /\ \A unread \in getUnreadMessages(messages, "SAMUS") :
            \E j \in DOMAIN unread : unread[j] = i
  /\ checkMailboxWatchStatus("SAMUS").entry = "samus"
  /\ checkMailboxWatchStatus("SAMUS").sessionCount = 2

PollTasks(r) == {t \in TimerIds : timers[t].recipient = r}

\* C12: a watch entry exists for r exactly when r's refCount is at least 1
\* and exactly one poll task is scheduled for r; there is never more than
\* one poll task for a recipient, and never a poll task without the entry
\* that owns it.
C12_OnePollTaskPerEntry ==
  \A r \in Recipients :
    /\ (activeWatches[r] # NoWatch)
         <=> (activeWatches[r].refCount >= 1 /\ Cardinality(PollTasks(r)) = 1)
    /\ Cardinality(PollTasks(r)) <= 1
    /\ \A t \in PollTasks(r) : activeWatches[r].interval = t
    /\ activeWatches[r].refCount >= 0

\* C12 witness: after another entry was destroyed, a recipient subscribed
\* to twice has refCount 2 and one poll task.
C12_Witness ==
  /\ timers[1] = NoTimer
  /\ timers[2] # NoTimer
  /\ activeWatches[timers[2].recipient].refCount = 2
  /\ PollTasks(timers[2].recipient) = {2}

\* C13: when a tick attempts its inject call every message of the payload
\* is already marked read in the store, and no message that was handed to
\* an inject call is unread.
C13_MarkedBeforeInject ==
  /\ running.pc = "inject" =>
       \A j \in DOMAIN running.unread : messages[running.unread[j]].read
  /\ \A i \in DOMAIN injectCount : injectCount[i] >= 1 => messages[i].read

\* C13 witness: a tick is about to inject one marked message while an
\* earlier message has been injected before.
C13_Witness ==
  /\ running.pc = "inject"
  /\ Len(running.unread) = 1
  /\ messages[running.unread[1]].read
  /\ \E i \in DOMAIN injectCount : injectCount[i] = 1 /\ i # running.unread[1]

\* C14: a database file error in a tick's fetch or mark (the step takes the
\* handle from open to null while the tick holds the thread) ends that tick
\* and nothing else: no inject call, no call chain left to receive the
\* error, the store rows, the watch entries, the poll tasks and the
\* subscription index as they were, the connection closed; and a tick that
\* starts with the handle null and the path known goes on to open the store
\* before its fetch.
C14_TickAbortsAlone ==
  [][/\ (running.kind = "tick" /\ running.pc = "stmt" /\ db # NoDb /\ db' = NoDb)
          => /\ running' = Idle
             /\ UNCHANGED <<injectCount, suspended, messages, activeWatches,
                            watchesBySession, timers, dbFile>>
             /\ openConns' = openConns \ {db}
             /\ activeWatches[running.recipient] # NoWatch
                  => timers[activeWatches[running.recipient].interval] # NoTimer
     /\ \A t \in TimerIds :
          (TickFire(t) /\ db = NoDb /\ dbFile /\ running' # Idle)
            => /\ running'.kind = "tick" /\ running'.pc = "open"
               /\ running'.op = "fetch"
               /\ running'.recipient = timers[t].recipient]_vars

\* C14 witness: a tick failed between its two marks and reset the handle
\* (one message read and never injected, the other still unread, the handle
\* null, nothing in flight), and the watch with its poll task is in place.
C14_Witness ==
  /\ db = NoDb /\ dbFile /\ running = Idle /\ suspended = EmptyBag
  /\ Len(messages) = 2
  /\ \E i, j \in DOMAIN messages :
       /\ messages[i].read /\ injectCount[i] = 0
       /\ ~messages[j].read
  /\ activeWatches["samus"] # NoWatch
  /\ timers[activeWatches["samus"].interval].recipient = "samus"

\* the step in which the passive inject call or the wake call of chain ch
\* comes back, with an answer or with a failure
CallOver(ch) ==
  /\ ch.pc \in {"prompt", "wake"}
  /\ CopiesIn(ch, suspended') < CopiesIn(ch, suspended)

\* C15: failures of the inject and wake calls are swallowed with no retry
\* and no rollback: when either call is over nothing changes but the chain
\* itself (store rows, read flags, inject counts, registry, poll tasks and
\* handle stay); after the inject call the chain either ends (failure: no
\* wake) or makes the one wake call; after the wake call it ends; a read
\* flag is never taken back and an injected message is never injected again.
C15_FailuresSwallowed ==
  [][/\ \A ch \in DOMAIN suspended :
          CallOver(ch) =>
            /\ UNCHANGED <<dbFile, db, openConns, messages, activeWatches,
                           watchesBySession, timers, running, injectCount>>
            /\ \/ suspended' = suspended (-) SetToBag({ch})
               \/ /\ ch.pc = "prompt"
                  /\ suspended' = (suspended (-) SetToBag({ch}))
                                    (+) SetToBag({[ch EXCEPT !.pc = "wake"]})
     /\ \A i \in DOMAIN messages : messages[i].read => messages'[i].read
     /\ \A i \in DOMAIN injectCount :
          injectCount[i] >= 1 => injectCount'[i] = injectCount[i]]_vars

\* C15 witness: the wake call for an injected, marked message is awaited
\* while the poll task of the recipient has fired again and is at its fetch.
C15_Witness ==
  /\ \E ch \in DOMAIN suspended : ch.pc = "wake"
  /\ \E i \in DOMAIN messages : messages[i].read /\ injectCount[i] = 1
  /\ running.kind = "tick" /\ running.op = "fetch"
  /\ activeWatches[running.recipient] # NoWatch

BeforeBatch ==
  \/ running.kind = "tick" /\ running.op = "fetch"
  \/ running'.kind = "tick" /\ running'.op = "fetch"
  \/ \E ch \in DOMAIN suspended' :
       /\ ch.kind = "tick" /\ ch.op = "fetch"
       /\ CopiesIn(ch, suspended') > CopiesIn(ch, suspended)
       /\ running = Idle /\ running' = Idle
       /\ activeWatches' = activeWatches

\* C17: a tick that finds no watch entry, or no unread message, does
\* nothing: up to and including its SELECT a tick marks no message, makes no
\* inject or wake call and leaves watch entries, poll tasks and subscription
\* index as they were; it ends at once when its recipient has no entry, and
\* ends with its SELECT when that returns no row.
C17_EmptyTickIsNoOp ==
  [][/\ BeforeBatch =>
          /\ UNCHANGED <<messages, injectCount, activeWatches, watchesBySession,
                         timers>>
          /\ \A ch \in DOMAIN suspended' :
               ch.pc \in {"prompt", "wake"}
                 => CopiesIn(ch, suspended') <= CopiesIn(ch, suspended)
     /\ \A t \in TimerIds :
          (timers[t] # NoTimer /\ activeWatches[timers[t].recipient] = NoWatch)
            => (TickFire(t) => UNCHANGED vars)
     /\ (/\ running.kind = "tick" /\ running.op = "fetch" /\ running.pc = "stmt"
         /\ getUnreadMessages(messages, running.recipient) = {<<>>})
          => running' = Idle]_vars

\* C17 witness: a tick is at its SELECT and the store holds nothing unread
\* for its recipient, only a message delivered before.
C17_Witness ==
  /\ running.kind = "tick" /\ running.op = "fetch" /\ running.pc = "stmt"
  /\ getUnreadMessages(messages, running.recipient) = {<<>>}
  /\ \E i \in DOMAIN messages :
       messages[i].recipient = running.recipient /\ injectCount[i] = 1

\* C18: while the recipient stays watched, ticks keep firing and nothing
\* fails, every message stored for it is eventually handed to an inject
\* call, whatever the interleaving of sends with ticks and also when it
\* shares its timestamp with another message.
StoredWatched(i) ==
  IF i \in DOMAIN messages
  THEN activeWatches[messages[i].recipient] # NoWatch
  ELSE FALSE

Injected(i) ==
  IF i \in DOMAIN injectCount THEN injectCount[i] >= 1 ELSE FALSE

C18_EventuallyInjected ==
  \A i \in 1..(MaxMsgs + 1) : StoredWatched(i) ~> Injected(i)

\* C18 witness: two messages with the same timestamp have both been
\* injected, and the watch is still there.
C18_Witness ==
  /\ Len(messages) >= 2
  /\ messages[1].timestamp = messages[2].timestamp
  /\ injectCount[1] = 1 /\ injectCount[2] = 1
  /\ activeWatches["samus"] # NoWatch

\* C19: a tick that started after session S gave up its subscriptions (by
\* stop_watching_mail or session.end) makes no inject call, and so no wake
\* call, on S: the session a tick injects into is subscribed to the tick's
\* recipient, unless it unsubscribed while the tick was already waiting.
C19_NoInjectToWithdrawn ==
  (running.pc = "inject" /\ ~running.withdrawn /\ ~running.stale)
    => running.recipient \in watchesBySession[running.sessionId]

\* the rows whose read flag the step sets
NewlyRead == {i \in DOMAIN messages : ~messages[i].read /\ messages'[i].read}

\* C20: only the marking loop of a tick sets read flags, and only on rows
\* the tick fetched: the k-th UPDATE sets the flag of exactly the unread
\* rows of the batch that carry the k-th message's timestamp, the k-th
\* message among them unless an earlier UPDATE of the same loop set it; so a
\* tick that gets through its loop has set the flags of exactly the rows of
\* the payload it injects.
C20_MarkedEqualsDelivered ==
  [][/\ NewlyRead # {} =>
          running.kind = "tick" /\ running.op = "mark" /\ running.pc = "stmt"
     /\ (running.kind = "tick" /\ running.op = "mark" /\ running.pc = "stmt"
           /\ running' # Idle)
          => LET batch == RowsOf(running.unread)
                 kth == running.unread[running.k]
             IN /\ NewlyRead \subseteq batch
                /\ NewlyRead = {i \in batch :
                                  /\ ~messages[i].read
                                  /\ messages[i].timestamp = messages[kth].timestamp}
                /\ \/ kth \in NewlyRead
                   \/ \E j \in 1..(running.k - 1) :
                        messages[running.unread[j]].timestamp = messages[kth].timestamp
                /\ running'.pc = "inject" =>
                     /\ running'.unread = running.unread
                     /\ \A i \in batch : messages'[i].read]_vars

\* C20 witness: one UPDATE has marked two messages of the same timestamp,
\* both fetched, and the tick is about to inject the two.
C20_Witness ==
  /\ running.pc = "inject"
  /\ Len(running.unread) = 2
  /\ messages[running.unread[1]].timestamp = messages[running.unread[2]].timestamp
  /\ \A j \in DOMAIN running.unread : messages[running.unread[j]].read

\* C21: single store handle.  At every moment at most one store connection
\* is open, and every open connection is the one the module's handle db
\* refers to: operations that call getDatabase together while the handle is
\* empty create one connection between them, and none is left open without
\* a reference.
C21_SingleStoreHandle ==
  /\ Cardinality(openConns) <= 1
  /\ openConns \subseteq {db}

====
